---- MODULE Spec2Model ----
(***************************************************************************)
(* Model of scraper.py, the ELO Javadoc scraper:                           *)
(*   clean_html, scrape_class_doc, scrape_package_doc (with its nested     *)
(*   get_javadoc_format), scrape_javadoc, save_markdown and the __main__   *)
(*   block that normalises the URL and derives the output file name.       *)
(*                                                                         *)
(* Text is modelled as a sequence of lexemes (a lexeme is one character or *)
(* one indivisible run of characters such as a complete tag), so that      *)
(* splitting, stripping, joining and re-parsing are computed, not assumed. *)
(***************************************************************************)
EXTENDS Integers, Sequences, FiniteSets, TLC

VARIABLES
    \* ---- clean_html ----
    clean_pc,          \* "start" | "once" | "twice"
    html_content,      \* the argument of clean_html
    cleaned,           \* clean_html(html_content)
    recleaned,         \* clean_html(clean_html(html_content))
    \* ---- __main__ ----
    main_pc,           \* "start" | "usage" | "named" | "saved" | "nodoc"
    argv,              \* sys.argv[1:] (empty, or the one positional argument)
    base_url,          \* the normalised root URL
    output_file,       \* the file name derived from base_url
    saved_as,          \* the file save_markdown opened, NoFile if none
    \* ---- save_markdown ----
    render_pc,         \* "start" | "written"
    render_doc,        \* the documentation argument: a sequence of [name, classes]
    written,           \* the sequence of f.write() texts
    \* ---- scrape_class_doc on its own ----
    class_pc,          \* "start" | "done"
    class_response,    \* what session.get(class_url) answers
    class_result,      \* what scrape_class_doc returns
    \* ---- scrape_javadoc, and scrape_package_doc inside it ----
    pc,                \* "start" | "packages" | "classes" | "done" | "raised"
    scope,             \* "site": many packages of plain pages | "package": one
                       \* package whose page may have any shape
    package_links,     \* the root page's package anchors
    pkg_i,             \* position of the for loop over package_links
    packages_found,
    documentation,     \* the dict, as the sequence of its items in insertion order
    package_page,      \* scrape_package_doc: the fetched package page
    javadoc_format,    \* scrape_package_doc: the detected format
    links,             \* scrape_package_doc: the enumerated class anchors
    link_i,            \* scrape_package_doc: position of the for loop over links
    classes,           \* scrape_package_doc: the accumulating list
    result,            \* what scrape_javadoc returned
    raised,            \* the exception that left scrape_javadoc, "none" if none
    calls,             \* history: each finished scrape_package_doc call, [name, returned]
    extracted          \* history: positions in links whose class page gave a ClassDoc

cleanVars == <<clean_pc, html_content, cleaned, recleaned>>
mainVars == <<main_pc, argv, base_url, output_file, saved_as>>
renderVars == <<render_pc, render_doc, written>>
classVars == <<class_pc, class_response, class_result>>
crawlVars ==
    <<pc, scope, package_links, pkg_i, packages_found, documentation, package_page,
      javadoc_format, links, link_i, classes, result, raised, calls, extracted>>
vars == <<cleanVars, mainVars, renderVars, classVars, crawlVars>>

\* ------------------------------------------------------------------ bounds
MaxLen == 3            \* length of the text handed to clean_html
MaxArg == 4            \* lexemes of the command-line argument after its scheme and host
MaxRenderPkgs == 2     \* packages of a documentation handed to save_markdown
MaxRenderClasses == 2  \* classes of each such package
MaxTokens == 4         \* elements inside the method-details section of a class page
MaxCtorTokens == 2     \* elements inside its constructor-details section
MaxAnchors == 2        \* anchors of a root page
MaxLinks == 2          \* rows of a package page's class listing

\* ----------------------------------------------------------------- helpers
SeqsUpTo(S, n) == UNION {[1..k -> S] : k \in 0..n}

RECURSIVE Flatten(_)
Flatten(ss) == IF ss = <<>> THEN <<>> ELSE Head(ss) \o Flatten(Tail(ss))

FlatMap(s, F(_)) == Flatten([i \in 1..Len(s) |-> F(s[i])])

IsInjective(s) == \A i, j \in 1..Len(s) : s[i] = s[j] => i = j

\* ------------------------------------------------- parts not under study
\* Each specification below exercises one part of the program; the variables of
\* the other parts rest at these values.
Unset == <<"unset">>
NoFile == <<"<none>">>          \* output_file=None, and "no file written"

CleanIdle ==
    /\ clean_pc = "idle"
    /\ html_content = <<>>
    /\ cleaned = Unset
    /\ recleaned = Unset

MainIdle ==
    /\ main_pc = "idle"
    /\ argv = <<>>
    /\ base_url = <<>>
    /\ output_file = NoFile
    /\ saved_as = NoFile

NoPage == [fetched |-> FALSE]

CrawlIdle ==
    /\ pc = "idle"
    /\ scope = "none"
    /\ package_links = <<>>
    /\ pkg_i = 0
    /\ packages_found = FALSE
    /\ documentation = <<>>
    /\ package_page = NoPage
    /\ javadoc_format = "unset"
    /\ links = <<>>
    /\ link_i = 0
    /\ classes = <<>>
    /\ result = [returned |-> FALSE]
    /\ raised = "none"
    /\ calls = <<>>
    /\ extracted = <<>>

ClassIdle ==
    /\ class_pc = "idle"
    /\ class_response = [status |-> "none"]
    /\ class_result = [none |-> TRUE]

RenderIdle ==
    /\ render_pc = "idle"
    /\ render_doc = <<>>
    /\ written = <<>>

\* ------------------------------------------------------------- clean_html
\* Lexemes of the text handed to clean_html.
LETTER == "a"
SPACE == " "
LF == "LF"                      \* a line break
TAG_OPEN == "<b>"               \* a complete start tag, as characters
TAG_CLOSE == "</b>"             \* a complete end tag, as characters
SCRIPT_OPEN == "<script>"       \* stands for <script> and <style> alike
SCRIPT_CLOSE == "</script>"
ESC_TAG == "&lt;b&gt;"          \* the start tag written with character entities
SURROGATE == "SUR"              \* a lone surrogate: a str character UTF-8 cannot encode

Lexemes ==
    {LETTER, SPACE, LF, TAG_OPEN, TAG_CLOSE, SCRIPT_OPEN, SCRIPT_CLOSE, ESC_TAG, SURROGATE}

RECURSIVE ParseFrom(_, _, _)
\* BeautifulSoup(html_content, 'html.parser'): the node list in document order.
\* A <script> start tag switches the tokenizer to raw text until </script> (or
\* the end of input); everything in between belongs to the script element.
ParseFrom(html, i, inScript) ==
    IF i > Len(html) THEN <<>>
    ELSE LET x == html[i] IN
         IF inScript
         THEN IF x = SCRIPT_CLOSE
              THEN ParseFrom(html, i + 1, FALSE)
              ELSE <<[node |-> "script", text |-> x]>> \o ParseFrom(html, i + 1, TRUE)
         ELSE IF x = SCRIPT_OPEN THEN ParseFrom(html, i + 1, TRUE)
              ELSE IF x \in {TAG_OPEN, TAG_CLOSE, SCRIPT_CLOSE}
                   THEN <<[node |-> "tag", text |-> x]>> \o ParseFrom(html, i + 1, FALSE)
              ELSE IF x = ESC_TAG
                   THEN <<[node |-> "text", text |-> TAG_OPEN]>> \o ParseFrom(html, i + 1, FALSE)
              ELSE <<[node |-> "text", text |-> x]>> \o ParseFrom(html, i + 1, FALSE)

Parse(html) == ParseFrom(html, 1, FALSE)

\* for script in soup(["script", "style"]): script.decompose()
Decompose(soup) == SelectSeq(soup, LAMBDA n : n.node # "script")

\* soup.get_text(): every string of the tree, concatenated (a script's own
\* text too, had the script not been decomposed)
GetText(soup) ==
    LET texts == SelectSeq(soup, LAMBDA n : n.node \in {"text", "script"})
    IN [i \in 1..Len(texts) |-> texts[i].text]

RECURSIVE SplitAt(_, _, _, _)
\* s.split(sep) for a separator of `width` equal lexemes `sep`, scanning left to right
SplitAt(s, sep, width, cur) ==
    IF s = <<>> THEN <<cur>>
    ELSE IF Len(s) >= width /\ \A k \in 1..width : s[k] = sep
         THEN <<cur>> \o SplitAt(SubSeq(s, width + 1, Len(s)), sep, width, <<>>)
         ELSE SplitAt(Tail(s), sep, width, Append(cur, Head(s)))

\* text.splitlines(): no trailing empty line, and none for the empty text
SplitLines(text) ==
    LET parts == SplitAt(text, LF, 1, <<>>)
    IN IF parts[Len(parts)] = <<>> THEN SubSeq(parts, 1, Len(parts) - 1) ELSE parts

IsWhite(x) == x \in {SPACE, LF}

RECURSIVE LStrip(_)
LStrip(s) == IF s # <<>> /\ IsWhite(Head(s)) THEN LStrip(Tail(s)) ELSE s

RECURSIVE RStrip(_)
RStrip(s) ==
    IF s # <<>> /\ IsWhite(s[Len(s)]) THEN RStrip(SubSeq(s, 1, Len(s) - 1)) ELSE s

Strip(s) == LStrip(RStrip(s))

RECURSIVE JoinWith(_, _)
\* sep.join(parts)
JoinWith(parts, sep) ==
    IF parts = <<>> THEN <<>>
    ELSE IF Len(parts) = 1 THEN parts[1]
    ELSE parts[1] \o sep \o JoinWith(Tail(parts), sep)

\* text.encode('utf-8', errors='ignore').decode('utf-8')
EncodeIgnore(text) == SelectSeq(text, LAMBDA x : x # SURROGATE)

clean_html(html) ==
    LET soup == Decompose(Parse(html))
        text == GetText(soup)
        lines == SplitLines(text)
        stripped == [i \in 1..Len(lines) |-> Strip(lines[i])]
        phrases == Flatten([i \in 1..Len(stripped) |-> SplitAt(stripped[i], SPACE, 2, <<>>)])
        chunks == [i \in 1..Len(phrases) |-> Strip(phrases[i])]
        kept == SelectSeq(chunks, LAMBDA c : c # <<>>)
    IN EncodeIgnore(JoinWith(kept, <<LF>>))

\* --------------------------------------------------------------- __main__
SLASH == "/"
SCHEME == "https:"              \* the only lexeme that starts with 'http'
HOST == "forum.elo.com"
DefaultBase == <<SCHEME, SLASH, SLASH, HOST, SLASH, "javadoc", SLASH>>
PathLexemes == {SLASH, "javadoc", "ix", "23"}
PathStart == 4                  \* url_parts[4:]

RECURSIVE RStripSlash(_)
\* s.rstrip('/')
RStripSlash(s) ==
    IF s # <<>> /\ s[Len(s)] = SLASH THEN RStripSlash(SubSeq(s, 1, Len(s) - 1)) ELSE s

\* s.startswith('http')
StartsWithHttp(s) == s # <<>> /\ s[1] = SCHEME

\* s.endswith('/')
EndsWithSlash(s) == s # <<>> /\ s[Len(s)] = SLASH

\* base_url = sys.argv[1].rstrip('/'); prefix unless it starts with 'http';
\* append '/' unless it ends with one
NormaliseUrl(arg) ==
    LET stripped == RStripSlash(arg)
        absolute == IF StartsWithHttp(stripped) THEN stripped ELSE DefaultBase \o stripped
    IN IF EndsWithSlash(absolute) THEN absolute ELSE Append(absolute, SLASH)

\* url_parts[3:]: the slice begun one element early
FileNameMutParts(url_parts) == SubSeq(url_parts, PathStart, Len(url_parts))

\* url_parts[4:]
FileNameParts(url_parts) == SubSeq(url_parts, PathStart + 1, Len(url_parts))

\* url_parts = base_url.rstrip('/').split('/')
\* output_file = f"javadoc.{'.'.join(p for p in url_parts[4:] if p)}.md"
OutputFileName(url) ==
    LET url_parts == SplitAt(RStripSlash(url), SLASH, 1, <<>>)
        named == SelectSeq(FileNameParts(url_parts), LAMBDA p : p # <<>>)
    IN <<"javadoc.">> \o JoinWith(named, <<".">>) \o <<".md">>

\* save_markdown: if output_file is None: output_file = 'javadoc.md'; open(output_file, 'w')
SaveTarget(file) == IF file = NoFile THEN <<"javadoc.md">> ELSE file

Arguments ==
    {pre \o rest : pre \in {<<>>, <<SCHEME, SLASH, SLASH, HOST>>},
                   rest \in SeqsUpTo(PathLexemes, MaxArg)}

InitMain ==
    /\ main_pc = "start"
    /\ argv \in {<<>>} \cup {<<a>> : a \in Arguments}
    /\ base_url = <<>>
    /\ output_file = NoFile
    /\ saved_as = NoFile
    /\ CleanIdle
    /\ RenderIdle
    /\ ClassIdle
    /\ CrawlIdle

\* if len(sys.argv) < 2: print usage; sys.exit(1)
MainUsage ==
    /\ main_pc = "start"
    /\ argv = <<>>
    /\ main_pc' = "usage"
    /\ UNCHANGED <<argv, base_url, output_file, saved_as, cleanVars, renderVars, classVars, crawlVars>>

\* the URL normalisation and the file name
MainName ==
    /\ main_pc = "start"
    /\ argv # <<>>
    /\ base_url' = NormaliseUrl(argv[1])
    /\ output_file' = OutputFileName(base_url')
    /\ main_pc' = "named"
    /\ UNCHANGED <<argv, saved_as, cleanVars, renderVars, classVars, crawlVars>>

\* documentation = scrape_javadoc(base_url); save_markdown(documentation, output_file)
\* when it is truthy.  What the crawl finds is the network's answer.
MainSave ==
    /\ main_pc = "named"
    /\ \E found \in BOOLEAN :
          IF found
          THEN /\ saved_as' = SaveTarget(output_file)
               /\ main_pc' = "saved"
          ELSE /\ saved_as' = NoFile
               /\ main_pc' = "nodoc"
    /\ UNCHANGED <<argv, base_url, output_file, cleanVars, renderVars, classVars, crawlVars>>

NextMain == MainUsage \/ MainName \/ MainSave

SpecMain == InitMain /\ [][NextMain]_vars

\* The path components of a URL scheme://host/c1/c2/...: what follows the host,
\* cut at each '/', read off the URL lexeme by lexeme.
RECURSIVE Components(_, _)
Components(s, cur) ==
    IF s = <<>> THEN (IF cur = <<>> THEN <<>> ELSE <<cur>>)
    ELSE IF Head(s) = SLASH THEN <<cur>> \o Components(Tail(s), <<>>)
    ELSE Components(Tail(s), Append(cur, Head(s)))

IsRootUrl(url) ==
    /\ Len(url) >= 5
    /\ SubSeq(url, 1, 5) = <<SCHEME, SLASH, SLASH, HOST, SLASH>>

\* every component after "scheme://host/", empty ones included
PathComponents(url) == Components(SubSeq(url, 6, Len(url)), <<>>)

NonEmpty(parts) == SelectSeq(parts, LAMBDA p : p # <<>>)

NameOf(segments) == <<"javadoc.">> \o JoinWith(segments, <<".">>) \o <<".md">>

Named == main_pc \in {"named", "saved", "nodoc"}

\* C7 (as stated): the file is named after ALL non-empty path segments after the
\* host, and is the default javadoc.md when there is no segment to join.
C7_AllSegments ==
    (Named /\ IsRootUrl(base_url)) =>
        LET segs == NonEmpty(PathComponents(base_url))
        IN output_file = (IF segs = <<>> THEN <<"javadoc.md">> ELSE NameOf(segs))

\* C7 (amended): the file is named after the non-empty components that follow the
\* FIRST path component (the one right after the host), the name is
\* javadoc..md when there is none, and that is the file save_markdown writes.
C7_SegmentsAfterFirst ==
    (Named /\ IsRootUrl(base_url)) =>
        LET comps == PathComponents(base_url)
            rest == IF comps = <<>> THEN <<>> ELSE Tail(comps)
        IN /\ output_file = NameOf(NonEmpty(rest))
           /\ main_pc = "saved" => saved_as = output_file

\* the documented example https://forum.elo.com/javadoc/ix/23/ was named and saved
C7_Witness ==
    /\ main_pc = "saved"
    /\ base_url = <<SCHEME, SLASH, SLASH, HOST, SLASH, "javadoc", SLASH, "ix", SLASH, "23", SLASH>>
    /\ saved_as = <<"javadoc.", "ix", ".", "23", ".md">>

\* ------------------------------------------------------- scrape_class_doc
\* A class page, as the elements the extractor looks for, in document order:
\* div.sub-title (with or without an <a>), div.inheritance, the class's own
\* div.block, section.constructor-details, section.method-details.  A section
\* is the sequence of the elements inside it; DETAIL opens a section.detail,
\* which runs to the next DETAIL or the section's end.
DETAIL == "detail"
SIG == "member-signature"
H3 == "h3"
BLOCK == "block"
DD == "dd"
DDE == "dd-empty"               \* a dd whose cleaned text is empty
SPAN_R == "span Returns:"
SPAN_O == "span Overrides:"
NoSection == <<"no section">>
None == [none |-> TRUE]         \* Python's None

MethodTokens == {DETAIL, SIG, H3, BLOCK, DD, DDE, SPAN_R, SPAN_O}
CtorTokens == {DETAIL, SIG, BLOCK, DD, DDE}
DdTokens == {DD, DDE}

MinOf(S) == CHOOSE x \in S : \A y \in S : x <= y

\* tree.find(...) over the elements lo..hi of a section: the index of the first
\* element that is one of `wanted`, 0 when there is none (None)
Find(toks, lo, hi, wanted) ==
    LET hits == {i \in lo..hi : toks[i] \in wanted}
    IN IF hits = {} THEN 0 ELSE MinOf(hits)

\* clean_html(str(element)): the element's own text, told apart by where it stands
CleanedText(section, toks, i) ==
    IF toks[i] = DDE THEN <<>> ELSE <<toks[i], section, ToString(i)>>

\* section.find_all('section', class_='detail'): each detail's element range
DetailRanges(toks) ==
    LET starts == SelectSeq([i \in 1..Len(toks) |-> i], LAMBDA i : toks[i] = DETAIL)
    IN [k \in 1..Len(starts) |->
          [lo |-> starts[k] + 1,
           hi |-> IF k < Len(starts) THEN starts[k + 1] - 1 ELSE Len(toks)]]

\* params = detail.find_all('dd'); the non-empty cleaned texts, in order
Parameters(section, toks, d) ==
    LET dds == SelectSeq([i \in 1..Len(toks) |-> i],
                         LAMBDA i : i >= d.lo /\ i <= d.hi /\ toks[i] \in DdTokens)
        texts == [k \in 1..Len(dds) |-> CleanedText(section, toks, dds[k])]
    IN SelectSeq(texts, LAMBDA t : t # <<>>)

TextAt(section, toks, i) == IF i = 0 THEN <<>> ELSE CleanedText(section, toks, i)

ConstructorInfo(toks, d) ==
    [signature |-> TextAt("c", toks, Find(toks, d.lo, d.hi, {SIG})),
     description |-> TextAt("c", toks, Find(toks, d.lo, d.hi, {BLOCK})),
     parameters |-> Parameters("c", toks, d)]

\* span.find_next('dd'): the first dd after the span in the whole document;
\* inside the method section that is the rest of the section, and nothing
\* follows the section
FindNextDd(toks, d, span) == Find(toks, span + 1, Len(toks), DdTokens)

\* detail.find('span', string=label) of the last such span instead of the first
FindSpanLast(toks, d, label) ==
    LET hits == {i \in d.lo..d.hi : toks[i] = label}
    IN IF hits = {} THEN 0 ELSE CHOOSE x \in hits : \A y \in hits : y <= x

\* detail.find('span', string=label)
FindSpan(toks, d, label) == Find(toks, d.lo, d.hi, {label})

\* the 'returns' / 'overrides' field: set only when the span exists and a dd follows
LabelledEntry(toks, d, label) ==
    LET span == FindSpan(toks, d, label)
        dd == IF span = 0 THEN 0 ELSE FindNextDd(toks, d, span)
    IN TextAt("m", toks, dd)

MethodInfo(toks, d) ==
    LET signature == Find(toks, d.lo, d.hi, {SIG})
    IN [name |-> IF signature = 0 THEN <<>>
                 ELSE TextAt("m", toks, Find(toks, d.lo, d.hi, {H3})),
        signature |-> TextAt("m", toks, signature),
        description |-> TextAt("m", toks, Find(toks, d.lo, d.hi, {BLOCK})),
        parameters |-> Parameters("m", toks, d),
        returns |-> LabelledEntry(toks, d, SPAN_R),
        overrides |-> LabelledEntry(toks, d, SPAN_O)]

SectionTokens(section) == IF section = NoSection THEN <<>> ELSE section

\* soup.find('div', class_='block'): the first div.block of the whole page
FirstBlock(page) ==
    LET c == SectionTokens(page.ctors)
        m == SectionTokens(page.methods)
    IN IF page.block THEN <<BLOCK, "top">>
       ELSE IF Find(c, 1, Len(c), {BLOCK}) # 0 THEN TextAt("c", c, Find(c, 1, Len(c), {BLOCK}))
       ELSE TextAt("m", m, Find(m, 1, Len(m), {BLOCK}))

\* the body of scrape_class_doc after a successful fetch
ExtractClassDoc(page) ==
    LET c == SectionTokens(page.ctors)
        m == SectionTokens(page.methods)
        cd == DetailRanges(c)
        md == DetailRanges(m)
    IN [package |-> IF page.subTitle = "link" THEN <<"sub-title a">> ELSE <<>>,
        inheritance |-> IF page.inheritance THEN <<"inheritance">> ELSE <<>>,
        description |-> FirstBlock(page),
        constructors |-> [k \in 1..Len(cd) |-> ConstructorInfo(c, cd[k])],
        methods |-> [k \in 1..Len(md) |-> MethodInfo(m, md[k])]]

\* scrape_class_doc: a RequestException (transport error, or raise_for_status
\* on an HTTP error status) is caught and answered with None
scrape_class_doc(response) ==
    IF response.status = "ok" THEN ExtractClassDoc(response.page) ELSE None

PlainClassPage ==
    [subTitle |-> "absent", inheritance |-> FALSE, block |-> FALSE,
     ctors |-> NoSection, methods |-> NoSection]

\* Class pages: every header and constructor section beside a fixed method
\* section, and every method section beside a bare header.
ClassPages ==
    [subTitle : {"absent", "nolink", "link"}, inheritance : BOOLEAN, block : BOOLEAN,
     ctors : {NoSection} \cup SeqsUpTo(CtorTokens, MaxCtorTokens),
     methods : {NoSection, <<DETAIL, SIG, H3>>}]
    \cup {[PlainClassPage EXCEPT !.methods = m] : m \in SeqsUpTo(MethodTokens, MaxTokens)}

ClassResponses ==
    {[status |-> "error", page |-> PlainClassPage]}
    \cup [status : {"ok"}, page : ClassPages]

InitClass ==
    /\ class_pc = "start"
    /\ class_response \in ClassResponses
    /\ class_result = None
    /\ CleanIdle
    /\ MainIdle
    /\ RenderIdle
    /\ CrawlIdle

ScrapeClassDoc ==
    /\ class_pc = "start"
    /\ class_result' = scrape_class_doc(class_response)
    /\ class_pc' = "done"
    /\ UNCHANGED <<class_response, cleanVars, mainVars, renderVars, crawlVars>>

NextClass == ScrapeClassDoc

SpecClass == InitClass /\ [][NextClass]_vars

\* The method blocks of the fetched page and the MethodDoc built for each.
ClassDone == class_pc = "done" /\ class_response.status = "ok"
PageMethods == SectionTokens(class_response.page.methods)
MethodBlocks == DetailRanges(PageMethods)

SpansOf(b, label) == {i \in MethodBlocks[b].lo..MethodBlocks[b].hi : PageMethods[i] = label}
DdsAfter(i) == {j \in (i + 1)..Len(PageMethods) : PageMethods[j] \in DdTokens}

FieldOf(b, label) ==
    IF label = SPAN_R THEN class_result.methods[b].returns
    ELSE class_result.methods[b].overrides

\* C9: a method block without a 'Returns:' ('Overrides:') span has an empty
\* returns (overrides) field; with one or more, the field is the cleaned text of
\* the dd that follows the FIRST such span, and the page parses without error.
C9_FirstLabelWins ==
    ClassDone =>
        /\ class_result # None
        /\ Len(class_result.methods) = Len(MethodBlocks)
        /\ \A b \in 1..Len(MethodBlocks) : \A label \in {SPAN_R, SPAN_O} :
              /\ SpansOf(b, label) = {} => FieldOf(b, label) = <<>>
              /\ (SpansOf(b, label) # {} /\ DdsAfter(MinOf(SpansOf(b, label))) # {}) =>
                    FieldOf(b, label) =
                        CleanedText("m", PageMethods, MinOf(DdsAfter(MinOf(SpansOf(b, label)))))

\* two 'Returns:' spans in one block, a dd after the first only, and it was taken
C9_Witness ==
    /\ ClassDone
    /\ PageMethods = <<DETAIL, SPAN_R, DD, SPAN_R>>
    /\ class_result.methods[1].returns = <<DD, "m", "3">>

\* C10: a labelled field comes from inside its own method block: with a label
\* span but no dd after it inside the block, the field is empty.
C10_FieldsFromOwnBlock ==
    ClassDone =>
        \A b \in 1..Len(MethodBlocks) : \A label \in {SPAN_R, SPAN_O} :
            (/\ SpansOf(b, label) # {}
             /\ DdsAfter(MinOf(SpansOf(b, label))) \cap (1..MethodBlocks[b].hi) = {})
                => FieldOf(b, label) = <<>>

\* C2 for class pages: whatever is present or absent, a fetched class page yields
\* a ClassDoc with its five fields.
C2_ClassDocTotal ==
    ClassDone =>
        DOMAIN class_result = {"description", "inheritance", "constructors", "methods", "package"}

\* ---------------------------------------------------------- save_markdown
\* Names are sequences of characters; str.lower() and str.replace('.', '') act
\* on the characters.
UpperToLower == [c \in {"P", "B", "F"} |-> CASE c = "P" -> "p" [] c = "B" -> "b" [] c = "F" -> "f"]

\* name.lower()
Lower(name) ==
    [i \in 1..Len(name) |-> IF name[i] \in DOMAIN UpperToLower THEN UpperToLower[name[i]] ELSE name[i]]

\* name.replace('.', '')
RemoveDots(name) == SelectSeq(name, LAMBDA c : c # ".")

\* package_name.lower().replace('.', '')
PackageAnchor(package_name) == RemoveDots(Lower(package_name))

\* f"{package_name.lower().replace('.', '')}-{class_info['name'].lower()}"
ClassAnchor(package_name, class_name) ==
    PackageAnchor(package_name) \o <<"-">> \o Lower(class_name)

FenceJava == "FENCE java"        \* the line that opens a java code block
Fence == "FENCE"                 \* the line that closes it

Opt(cond, writes) == IF cond THEN writes ELSE <<>>

\* the table of contents: one link per package, a nested link per class
TocWrites(docs) ==
    FlatMap(docs, LAMBDA pkg :
        <<<<"- [">> \o pkg.name \o <<"](#">> \o PackageAnchor(pkg.name) \o <<")">>>>
        \o [i \in 1..Len(pkg.classes) |->
              LET anchor == ClassAnchor(pkg.name, pkg.classes[i].name)
              IN <<"  - [">> \o pkg.classes[i].name \o <<"](#">> \o anchor \o <<")">>])

ParameterWrites(parameters) ==
    Opt(parameters # <<>>,
        <<<<"**Parameters:**">>>>
        \o [i \in 1..Len(parameters) |-> <<"- ">> \o parameters[i]]
        \o <<<<"">>>>)

ConstructorWrites(constructor) ==
    <<<<FenceJava>>, constructor.signature, <<Fence>>>>
    \o Opt(constructor.description # <<>>, <<constructor.description>>)
    \o ParameterWrites(constructor.parameters)

MethodWrites(method) ==
    <<<<"#### ">> \o method.name, <<FenceJava>>, method.signature, <<Fence>>>>
    \o Opt(method.description # <<>>, <<method.description>>)
    \o ParameterWrites(method.parameters)
    \o Opt(method.returns # <<>>, <<<<"**Returns:** ">> \o method.returns>>)
    \o Opt(method.overrides # <<>>, <<<<"**Overrides:** ">> \o method.overrides>>)

\* one class of the body.  The anchor is computed as in the table of contents
\* and then not written: the heading line carries the class name alone.
ClassWrites(package_name, class_info) ==
    LET anchor == ClassAnchor(package_name, class_info.name)
        d == class_info.documentation
    IN <<<<"## Class ">> \o class_info.name>>
       \o Opt(d.package # <<>>, <<<<"**Package:** ">> \o d.package>>)
       \o Opt(d.inheritance # <<>>, <<<<"**Inheritance:**">>, d.inheritance>>)
       \o Opt(d.description # <<>>, <<<<"### Description">>, d.description>>)
       \o Opt(d.constructors # <<>>,
              <<<<"### Constructors">>>> \o FlatMap(d.constructors, ConstructorWrites))
       \o Opt(d.methods # <<>>, <<<<"### Methods">>>> \o FlatMap(d.methods, MethodWrites))
       \o <<<<"---">>>>

BodyWrites(docs) ==
    FlatMap(docs, LAMBDA pkg :
        <<<<"# Package ">> \o pkg.name>>
        \o FlatMap(pkg.classes, LAMBDA c : ClassWrites(pkg.name, c)))

Separator == <<"SEPARATOR">>    \* the "\n---\n\n" between contents and body

save_markdown(docs) ==
    <<<<"# ELO Javadoc Documentation">>, <<"## Table of Contents">>>>
    \o TocWrites(docs) \o <<Separator>> \o BodyWrites(docs)

EmptyClassDoc ==
    [description |-> <<>>, inheritance |-> <<>>, constructors |-> <<>>,
     methods |-> <<>>, package |-> <<>>]

FullClassDoc ==
    [description |-> <<"d">>, inheritance |-> <<"i">>, package |-> <<"p">>,
     constructors |-> <<[signature |-> <<"s">>, description |-> <<>>, parameters |-> <<<<"x">>>>]>>,
     methods |-> <<[name |-> <<"m">>, signature |-> <<"s">>, description |-> <<"d">>,
                    parameters |-> <<>>, returns |-> <<"r">>, overrides |-> <<>>]>>]

RenderPackageNames == {<<"p", ".", "a">>, <<"P", ".", "B">>, <<"p", "a">>}
RenderClassNames == {<<"F">>, <<"f", "F">>}
RenderClasses == [name : RenderClassNames, documentation : {EmptyClassDoc, FullClassDoc}]
RenderPackages == [name : RenderPackageNames, classes : SeqsUpTo(RenderClasses, MaxRenderClasses)]

\* a dict: no package name twice
RenderDocs ==
    {d \in SeqsUpTo(RenderPackages, MaxRenderPkgs) :
        IsInjective([i \in 1..Len(d) |-> d[i].name])}

InitRender ==
    /\ render_pc = "start"
    /\ render_doc \in RenderDocs
    /\ written = <<>>
    /\ CleanIdle
    /\ MainIdle
    /\ ClassIdle
    /\ CrawlIdle

SaveMarkdown ==
    /\ render_pc = "start"
    /\ written' = save_markdown(render_doc)
    /\ render_pc' = "written"
    /\ UNCHANGED <<render_doc, cleanVars, mainVars, classVars, crawlVars>>

NextRender == SaveMarkdown

SpecRender == InitRender /\ [][NextRender]_vars

\* Where the written file splits into table of contents and body.
SeparatorAt(w) == CHOOSE i \in 1..Len(w) : w[i] = Separator
TocPart(w) == SubSeq(w, 1, SeparatorAt(w) - 1)
BodyPart(w) == SubSeq(w, SeparatorAt(w) + 1, Len(w))

IndexOf(line, tok) == CHOOSE i \in 1..Len(line) : line[i] = tok

\* the targets "#..." of the links [text](#target) of a part of the file
LinkTargets(part) ==
    {SubSeq(part[k], IndexOf(part[k], "](#") + 1, Len(part[k]) - 1) :
        k \in {k \in 1..Len(part) : \E i \in 1..Len(part[k]) : part[k][i] = "](#"}}

\* The anchors a part of the file defines: an explicit anchor (<a id="...">, which
\* would show as a write starting with "<a id="), or the one a Markdown renderer
\* derives from a heading's own text: lower case, punctuation dropped, spaces
\* turned to '-'.
HeadingMarks == [h \in {"# Package ", "## Class "} |->
                    IF h = "# Package " THEN <<"package-">> ELSE <<"class-">>]

AnchorsDefined(part) ==
    {SubSeq(part[k], 2, Len(part[k])) : k \in {k \in 1..Len(part) : part[k][1] = "<a id="}}
    \cup {HeadingMarks[part[k][1]] \o RemoveDots(Lower(Tail(part[k]))) :
             k \in {k \in 1..Len(part) : part[k][1] \in DOMAIN HeadingMarks}}

\* C5: every anchor the table of contents links to is the anchor of a heading
\* written in the body.
C5_TocAnchorsInBody ==
    render_pc = "written" => LinkTargets(TocPart(written)) \subseteq AnchorsDefined(BodyPart(written))

\* ------------------------------------ scrape_javadoc / scrape_package_doc
NoHref == "<no href>"
NoAnchor == [text |-> "<no anchor>", href |-> NoHref]
Some(v) == [none |-> FALSE, value |-> v]
NoValue == [none |-> TRUE, value |-> <<>>]       \* a returned None

\* Anchors of a root page: two packages, a third anchor that shows the first
\* one's name for another URL, a link to something else, an anchor without href.
RootAnchorKinds ==
    {[text |-> "pkg.a", href |-> "pkg/a/package-summary.html"],
     [text |-> "pkg.b", href |-> "pkg/b/package-summary.html"],
     [text |-> "pkg.a", href |-> "old/pkg/a/package-summary.html"],
     [text |-> "Overview", href |-> "overview-summary.html"],
     [text |-> "Top", href |-> NoHref]}

\* 'package-summary.html' in link.get('href', '')
IsPackageHref(href) ==
    href \in {"pkg/a/package-summary.html", "pkg/b/package-summary.html",
              "old/pkg/a/package-summary.html"}

\* package_links = [link for link in soup.find_all('a')
\*                  if 'package-summary.html' in link.get('href', '')]
PackageLinks(anchors) == SelectSeq(anchors, LAMBDA a : IsPackageHref(a.href))

\* A package page: whether it has a div.table-tabs and a div#class-summary, the
\* class of its table if it has one, and the rows of its class listing (inside
\* the class-summary div and the table, whichever exist).  A row has a
\* th.col-first or not, and its first anchor (NoAnchor: none).
TableKinds == {"none", "summary-table", "summary", "memberSummary", "plain"}
FooLink == [text |-> "Foo", href |-> "Foo.html"]
BarLink == [text |-> "Bar", href |-> "Bar.html"]
RowKinds ==
    {[colFirst |-> TRUE, anchor |-> FooLink],
     [colFirst |-> TRUE, anchor |-> BarLink],
     [colFirst |-> TRUE, anchor |-> [text |-> "Baz", href |-> NoHref]],
     [colFirst |-> TRUE, anchor |-> NoAnchor],
     [colFirst |-> FALSE, anchor |-> FooLink]}

AllPackagePages ==
    [tableTabs : BOOLEAN, classSummary : BOOLEAN, table : TableKinds,
     rows : SeqsUpTo(RowKinds, MaxLinks)]

\* the page shapes of a many-package site: modern, modern without its
\* class-summary div, legacy, and a page without any table
PlainRows == SeqsUpTo({r \in RowKinds : r.colFirst /\ r.anchor \in {FooLink, BarLink}}, MaxLinks)
PlainPackagePages ==
    {[tableTabs |-> s[1], classSummary |-> s[2], table |-> s[3], rows |-> r] :
        s \in {<<TRUE, TRUE, "none">>, <<TRUE, FALSE, "none">>, <<FALSE, FALSE, "summary-table">>},
        r \in PlainRows}
    \cup {[tableTabs |-> FALSE, classSummary |-> FALSE, table |-> "none", rows |-> <<>>]}

PackagePagesOf(sc) == IF sc = "package" THEN AllPackagePages ELSE PlainPackagePages
RootPagesOf(sc) == SeqsUpTo(RootAnchorKinds, IF sc = "package" THEN 1 ELSE MaxAnchors)

ErrorResponse == [status |-> "error"]
OkResponse(p) == [status |-> "ok", page |-> p]

CrawlClassResponses ==
    {[status |-> "error", page |-> PlainClassPage],
     [status |-> "ok", page |-> [PlainClassPage EXCEPT !.block = TRUE]]}

\* get_javadoc_format with the two tests in the other order
get_javadoc_format_legacy_first(p) ==
    IF p.table = "summary-table" THEN "legacy"
    ELSE IF p.tableTabs THEN "modern"
    ELSE "unknown"

\* def get_javadoc_format(soup)
get_javadoc_format(p) ==
    IF p.tableTabs THEN "modern"
    ELSE IF p.table = "summary-table" THEN "legacy"
    ELSE "unknown"

\* The assignment to class_table: "unbound" when no branch assigns it (modern
\* without div#class-summary), "none" when the searches all answer None.
ClassTable(p, format) ==
    IF format = "modern"
    THEN IF p.classSummary THEN "class-summary" ELSE "unbound"
    ELSE IF p.table \in {"summary-table", "summary", "memberSummary"} THEN p.table
    ELSE "none"

\* links, by format: every anchor under the class-summary div, or the first
\* anchor of each row's th.col-first
EnumerateLinks(p, format) ==
    LET anchors ==
            IF format = "modern"
            THEN SelectSeq(p.rows, LAMBDA r : r.anchor # NoAnchor)
            ELSE SelectSeq(p.rows, LAMBDA r : r.colFirst /\ r.anchor # NoAnchor)
    IN [i \in 1..Len(anchors) |-> anchors[i].anchor]

\* return classes if classes else None
PackageReturn(cs) == IF cs # <<>> THEN Some(cs) ELSE NoValue

\* documentation[package_name] = classes
DictSet(doc, name, cs) ==
    IF \E i \in 1..Len(doc) : doc[i].name = name
    THEN [i \in 1..Len(doc) |-> IF doc[i].name = name THEN [doc[i] EXCEPT !.classes = cs] ELSE doc[i]]
    ELSE Append(doc, [name |-> name, classes |-> cs])

\* return documentation, empty or not
CrawlReturnAsIs(doc) == Some(doc)

\* return documentation if documentation else None
CrawlReturn(doc) == IF doc # <<>> THEN Some(doc) ELSE NoValue

InitCrawl ==
    /\ pc = "start"
    /\ scope \in {"site", "package"}
    /\ package_links = <<>>
    /\ pkg_i = 0
    /\ packages_found = FALSE
    /\ documentation = <<>>
    /\ package_page = NoPage
    /\ javadoc_format = "unset"
    /\ links = <<>>
    /\ link_i = 0
    /\ classes = <<>>
    /\ result = [returned |-> FALSE]
    /\ raised = "none"
    /\ calls = <<>>
    /\ extracted = <<>>
    /\ CleanIdle
    /\ MainIdle
    /\ RenderIdle
    /\ ClassIdle

Returned(v) == [returned |-> TRUE, value |-> v]

otherVars == <<cleanVars, mainVars, renderVars, classVars>>

\* scrape_javadoc up to its loop: fetch the root page, collect the package links
FetchRoot ==
    /\ pc = "start"
    /\ \E response \in {ErrorResponse} \cup {OkResponse(p) : p \in RootPagesOf(scope)} :
          IF response.status = "error"
          THEN /\ result' = Returned(NoValue)
               /\ pc' = "done"
               /\ UNCHANGED <<package_links, pkg_i>>
          ELSE /\ package_links' = PackageLinks(response.page)
               /\ IF package_links' = <<>>
                  THEN /\ result' = Returned(NoValue)
                       /\ pc' = "done"
                       /\ UNCHANGED pkg_i
                  ELSE /\ pkg_i' = 1
                       /\ pc' = "packages"
                       /\ UNCHANGED result
    /\ UNCHANGED <<scope, packages_found, documentation, package_page, javadoc_format, links, link_i,
                   classes, raised, calls, extracted, otherVars>>

\* one turn of the loop over package_links, up to scrape_package_doc's own loop:
\* fetch the package page, detect the format, find the class table and its links
FetchPackage ==
    /\ pc = "packages"
    /\ pkg_i <= Len(package_links)
    /\ package_links[pkg_i].href # NoHref
    /\ packages_found' = TRUE
    /\ \E response \in {ErrorResponse} \cup {OkResponse(p) : p \in PackagePagesOf(scope)} :
          IF response.status = "error"
          THEN \* except RequestException: return None; `if classes:` is false
               /\ calls' = Append(calls, [name |-> package_links[pkg_i].text, returned |-> NoValue])
               /\ pkg_i' = pkg_i + 1
               /\ UNCHANGED <<pc, package_page, javadoc_format, links, link_i, classes, raised>>
          ELSE LET format == get_javadoc_format(response.page)
                   class_table == ClassTable(response.page, format)
               IN /\ package_page' = response.page
                  /\ javadoc_format' = format
                  /\ IF class_table = "unbound"
                     THEN \* `if class_table:` reads a local no branch assigned
                          /\ raised' = "UnboundLocalError"
                          /\ pc' = "raised"
                          /\ UNCHANGED <<links, link_i, classes, calls, pkg_i>>
                     ELSE /\ links' = IF class_table = "none" THEN <<>>
                                      ELSE EnumerateLinks(response.page, format)
                          /\ link_i' = 1
                          /\ classes' = <<>>
                          /\ pc' = "classes"
                          /\ UNCHANGED <<raised, calls, pkg_i>>
    /\ extracted' = <<>>
    /\ UNCHANGED <<scope, package_links, documentation, result, otherVars>>

\* one turn of the loop over links: skip an anchor without href, else fetch the
\* class page and append the entry if a ClassDoc came back
FetchClass ==
    /\ pc = "classes"
    /\ link_i <= Len(links)
    /\ IF links[link_i].href = NoHref
       THEN UNCHANGED <<classes, extracted>>
       ELSE \E response \in CrawlClassResponses :
               LET class_doc == scrape_class_doc(response)
               IN IF class_doc # None
                  THEN /\ classes' = Append(classes, [name |-> links[link_i].text,
                                                     documentation |-> class_doc])
                       /\ extracted' = Append(extracted, link_i)
                  ELSE UNCHANGED <<classes, extracted>>
    /\ link_i' = link_i + 1
    /\ UNCHANGED <<pc, scope, package_links, pkg_i, packages_found, documentation, package_page,
                   javadoc_format, links, result, raised, calls, otherVars>>

\* scrape_package_doc returns; scrape_javadoc stores a non-empty list
EndPackage ==
    /\ pc = "classes"
    /\ link_i > Len(links)
    /\ LET returned == PackageReturn(classes)
           package_name == package_links[pkg_i].text
       IN /\ documentation' = IF returned # NoValue
                              THEN DictSet(documentation, package_name, returned.value)
                              ELSE documentation
          /\ calls' = Append(calls, [name |-> package_name, returned |-> returned])
    /\ pkg_i' = pkg_i + 1
    /\ pc' = "packages"
    /\ package_page' = NoPage
    /\ javadoc_format' = "unset"
    /\ links' = <<>>
    /\ link_i' = 0
    /\ classes' = <<>>
    /\ extracted' = <<>>
    /\ UNCHANGED <<scope, package_links, packages_found, result, raised, otherVars>>

\* the loop over package_links is over: return documentation or None
Finish ==
    /\ pc = "packages"
    /\ pkg_i > Len(package_links)
    /\ result' = Returned(CrawlReturn(documentation))
    /\ pc' = "done"
    /\ UNCHANGED <<scope, package_links, pkg_i, packages_found, documentation, package_page,
                   javadoc_format, links, link_i, classes, raised, calls, extracted, otherVars>>

Init == InitCrawl

Next == FetchRoot \/ FetchPackage \/ FetchClass \/ EndPackage \/ Finish

Spec == Init /\ [][Next]_vars

Done == pc = "done"
Answer == result.value                      \* Some(documentation) or NoValue
SuccessfulCalls == SelectSeq(calls, LAMBDA c : c.returned # NoValue)
ClassDocFields == {"description", "inheritance", "constructors", "methods", "package"}

\* C1: a failed fetch never aborts the crawl: scrape_javadoc does not raise,
\* every package anchor gets its scrape_package_doc call in page order, a failed
\* class page adds no entry and an extracted one does, and every class list a
\* package call returned is in the result under the package's name.
C1_FailureIsolation ==
    /\ raised = "none"
    /\ \A i \in 1..Len(calls) : calls[i].name = package_links[i].text
    /\ pc = "classes" =>
          /\ Len(classes) = Len(extracted)
          /\ \A k \in 1..Len(classes) : classes[k].name = links[extracted[k]].text
    /\ (Done /\ package_links # <<>>) => Len(calls) = Len(package_links)
    /\ (Done /\ Answer # NoValue) =>
          /\ \A i \in 1..Len(calls) :
                calls[i].returned # NoValue =>
                    \E k \in 1..Len(Answer.value) :
                        /\ Answer.value[k].name = calls[i].name
                        /\ \A c \in 1..Len(calls[i].returned.value) :
                              \E d \in 1..Len(Answer.value[k].classes) :
                                  Answer.value[k].classes[d] = calls[i].returned.value[c]
          /\ \A k \in 1..Len(Answer.value) :
                \E i \in 1..Len(calls) :
                    calls[i].name = Answer.value[k].name /\ calls[i].returned # NoValue

\* C2: missing markup is never an error: scrape_package_doc and scrape_class_doc
\* return normally on every fetched page, whatever it lacks, and every ClassDoc
\* has its five fields.
C2_MissingMarkupNeverRaises ==
    /\ raised = "none"
    /\ \A k \in 1..Len(classes) : DOMAIN classes[k].documentation = ClassDocFields

\* C3: every key of the accumulating documentation maps to a non-empty class
\* list, and scrape_javadoc returns None or a non-empty mapping: None for a root
\* page without package anchors and when no package yields a class.
C3_NonEmptyAggregate ==
    /\ \A k \in 1..Len(documentation) : documentation[k].classes # <<>>
    /\ Done =>
          /\ Answer # NoValue =>
                /\ Answer.value # <<>>
                /\ \A k \in 1..Len(Answer.value) : Answer.value[k].classes # <<>>
          /\ package_links = <<>> => Answer = NoValue
          /\ SuccessfulCalls = <<>> => Answer = NoValue

\* two packages were scraped, neither yielded a class (the second one's page
\* was fetched and searched), and the crawl returned None
C3_Witness ==
    /\ Done
    /\ Len(calls) = 2
    /\ packages_found
    /\ SuccessfulCalls = <<>>
    /\ Answer = NoValue

\* C4: the returned documentation lists, in page order, exactly the package
\* anchors whose call returned a list, each name with the list of its own call
\* (two anchors of one display text included); and a package's list is, in page
\* order, the enumerated class anchors whose page was extracted.
C4_DiscoveryOrder ==
    /\ pc = "classes" =>
          /\ \A k \in 1..Len(extracted) : \A j \in 1..Len(extracted) :
                k < j => extracted[k] < extracted[j]
          /\ [k \in 1..Len(classes) |-> classes[k].name]
                = [k \in 1..Len(extracted) |-> links[extracted[k]].text]
    /\ (Done /\ Answer # NoValue) =>
          Answer.value = [k \in 1..Len(SuccessfulCalls) |->
                            [name |-> SuccessfulCalls[k].name,
                             classes |-> SuccessfulCalls[k].returned.value]]

\* C8: get_javadoc_format answers one of three labels: modern whenever the page
\* has a table-tabs div, legacy exactly without one and with a summary-table,
\* unknown otherwise.
C8_FormatDetection ==
    package_page # NoPage =>
        /\ javadoc_format \in {"modern", "legacy", "unknown"}
        /\ package_page.tableTabs => javadoc_format = "modern"
        /\ javadoc_format = "legacy"
              <=> (~package_page.tableTabs /\ package_page.table = "summary-table")
        /\ javadoc_format = "unknown"
              <=> (~package_page.tableTabs /\ package_page.table # "summary-table")

\* a page with both a table-tabs div and a summary-table was detected as modern
C8_Witness ==
    /\ pc = "classes"
    /\ package_page # NoPage
    /\ package_page.tableTabs
    /\ package_page.table = "summary-table"
    /\ javadoc_format = "modern"

InitClean ==
    /\ clean_pc = "start"
    /\ html_content \in SeqsUpTo(Lexemes, MaxLen)
    /\ cleaned = Unset
    /\ recleaned = Unset
    /\ MainIdle
    /\ RenderIdle
    /\ ClassIdle
    /\ CrawlIdle

\* text = clean_html(x)
CleanOnce ==
    /\ clean_pc = "start"
    /\ cleaned' = clean_html(html_content)
    /\ clean_pc' = "once"
    /\ UNCHANGED <<html_content, recleaned, mainVars, renderVars, classVars, crawlVars>>

\* clean_html(text): the cleaned text handed to clean_html again
CleanAgain ==
    /\ clean_pc = "once"
    /\ recleaned' = clean_html(cleaned)
    /\ clean_pc' = "twice"
    /\ UNCHANGED <<html_content, cleaned, mainVars, renderVars, classVars, crawlVars>>

NextClean == CleanOnce \/ CleanAgain

SpecClean == InitClean /\ [][NextClean]_vars

\* C6: clean_html is idempotent: cleaning an already cleaned text changes nothing.
C6_Idempotent == clean_pc = "twice" => recleaned = cleaned

====
